---- MODULE Spec2Model ----
(***************************************************************************)
(* Transcription session manager of app.py: the process-wide table         *)
(* active_sessions and the four request handlers that touch it             *)
(* (/transcribe/start, /transcribe/stream/<id>, /transcribe/events/<id>,   *)
(* /transcribe/end/<id>).  Flask serves every request on its own thread    *)
(* and the table has no lock, so a handler is modelled as a sequence of    *)
(* steps, one per access to the shared table or to a shared session        *)
(* object; purely local statements are folded into the step before them.   *)
(* A request thread serves one request at a time; feed[t], obs[t] and      *)
(* end[t] hold the locals and the response of the request thread t serves  *)
(* (or served last) as a Feed, an Observe or an End.                       *)
(*                                                                         *)
(* Abstractions: uuid.uuid4() returns an identifier that no session        *)
(* object was ever created with; datetime.now() is a logical clock that    *)
(* advances at every transcript append; the fields 'text', 'confidence',   *)
(* 'start_time', 'speakers' (dict) and 'aws_client' are payload that no    *)
(* handler branches on and are left out of the session and entry records.  *)
(*                                                                         *)
(* The handlers that share no state with the session table (/summarize     *)
(* with truncate_text, naive_placeholder_summary and call_openai_summary,  *)
(* and /upload-audio) are modelled on one request at a time, held in req.  *)
(* A text is a sequence of characters, a character a one-letter string.    *)
(***************************************************************************)
EXTENDS Naturals, Integers, Sequences, FiniteSets, TLC

\* ---- bounds of the model ------------------------------------------------
NumIds == 2
MaxEntries == 1
NumThreads == 2
NumClients == 1
TailEntries == 6
SharedEntries == 2
EventEntries == 11
LengthSlack == 3
MaxLines == 10
CutSlack == 5
NumErrors == 2
MaxParts == 2
MaxUploads == 2
MaxRequests == 2

\* ---- program constants --------------------------------------------------
ObserveWindow == 5
RecentWindow == 10
SubstantialAudio == 1000
NumSpeakers == 3
TailChars == 1000
SampleChars == 1200
MaxHits == 8

Ids == 1..NumIds
Threads == 1..NumThreads
Clients == 1..NumClients
SpeakerIds == 1..NumSpeakers
AudioSizes == {0, SubstantialAudio, SubstantialAudio + 1}
EmptyOrSubstantial == {0, SubstantialAudio + 1}

NoId == 0
NoRef == 0

VARIABLES transcribe_client, active_sessions, heap, clock, start_result, feed, obs, end, req

vars == <<transcribe_client, active_sessions, heap, clock, start_result, feed, obs, end, req>>

\* ---- helpers ------------------------------------------------------------
Max(a, b) == IF a >= b THEN a ELSE b

\* seq[-n:] of Python
LastN(seq, n) == SubSeq(seq, Max(1, Len(seq) - n + 1), Len(seq))

\* s occurs in f as a run of adjacent elements
IsContiguousSubSeq(s, f) ==
    \E i \in 0..Len(f) : i + Len(s) <= Len(f) /\ SubSeq(f, i + 1, i + Len(s)) = s

\* del d[k]
DelKey(d, k) == [x \in (DOMAIN d) \ {k} |-> d[x]]

\* d[k] = v
SetKey(d, k, v) == [x \in (DOMAIN d) \cup {k} |-> IF x = k THEN v ELSE d[x]]

\* identifiers some session object was created with
IssuedIds == {heap[r].session_id : r \in 1..Len(heap)}

\* uuid.uuid4(): an identifier no session was created with.  Identifiers are
\* opaque (the handlers only compare them), so the least unused one stands
\* for any of them.
Uuid4 == {id \in Ids \ IssuedIds : \A other \in Ids \ IssuedIds : id <= other}

\* the dict stored by start_transcription_session
NewSession(session_id) == [session_id |-> session_id, transcript |-> <<>>, is_active |-> TRUE]

\* an entry that names two speakers
MockEntry_m(speaker) ==
    [timestamp |-> clock, speakers |-> <<speaker, (speaker % NumSpeakers) + 1>>]

\* the dict appended by stream_transcription
MockEntry(speaker) == [timestamp |-> clock, speakers |-> <<speaker>>]

\* the first entries instead of the last ones
LatestEntries_m(transcript) ==
    SubSeq(transcript, 1, IF Len(transcript) < ObserveWindow THEN Len(transcript) ELSE ObserveWindow)

\* the transcript slice of one server-sent event (line 805)
LatestEntries(transcript) == LastN(transcript, ObserveWindow)

NoResult == [status |-> 0, error |-> "", session_id |-> NoId]
FeedIdle == [pc |-> "idle", session_id |-> NoId, audio_length |-> 0, session |-> NoRef,
             status |-> 0, error |-> "", audio_size |-> 0, transcript_count |-> 0]
ObserveIdle == [pc |-> "idle", session_id |-> NoId, session |-> NoRef,
                status |-> 0, stream |-> "none", out |-> <<>>]
EndIdle == [pc |-> "idle", session_id |-> NoId, session |-> NoRef, copy |-> <<>>,
            status |-> 0, error |-> "", final_transcript |-> <<>>, total_entries |-> 0]

\* no /summarize, /upload-audio or helper call is being served
NoRequest == [pc |-> "none"]

Resting(pc) == pc \in {"idle", "done"}

\* thread t serves no request
Free(t) == Resting(feed[t].pc) /\ Resting(obs[t].pc) /\ Resting(end[t].pc)

\* the request threads of the running specification
Pool == DOMAIN feed

Init(pool) ==
    /\ transcribe_client \in BOOLEAN
    /\ active_sessions = <<>>
    /\ heap = <<>>
    /\ clock = 1
    /\ start_result = NoResult
    /\ feed = [t \in pool |-> FeedIdle]
    /\ obs = [t \in pool |-> ObserveIdle]
    /\ end = [t \in pool |-> EndIdle]
    /\ req = NoRequest

\* ---- POST /transcribe/start ---------------------------------------------
\* lines 74-75 and 724-725
StartUnconfigured ==
    /\ start_result' = [status |-> 400, error |-> "AWS Transcribe not configured", session_id |-> NoId]
    /\ UNCHANGED <<req, transcribe_client, active_sessions, heap, clock, feed, obs, end>>

\* a start that replaces the table instead of adding one key to it
StartSession_m(session_id) ==
    /\ heap' = Append(heap, NewSession(session_id))
    /\ active_sessions' = [x \in {session_id} |-> Len(heap) + 1]
    /\ start_result' = [status |-> 200, error |-> "", session_id |-> session_id]
    /\ UNCHANGED <<req, transcribe_client, clock, feed, obs, end>>

\* lines 77-92 and 727
StartSession(session_id) ==
    /\ heap' = Append(heap, NewSession(session_id))
    /\ active_sessions' = SetKey(active_sessions, session_id, Len(heap) + 1)
    /\ start_result' = [status |-> 200, error |-> "", session_id |-> session_id]
    /\ UNCHANGED <<req, transcribe_client, clock, feed, obs, end>>

\* a start that does not test transcribe_client
start_transcription_m(maxSessions) ==
    /\ Len(heap) < maxSessions
    /\ \E session_id \in Uuid4 : StartSession(session_id)

\* lines 718-727 with start_transcription_session (lines 72-94)
start_transcription(maxSessions) ==
    \/ /\ ~transcribe_client
       /\ StartUnconfigured
    \/ /\ transcribe_client
       /\ Len(heap) < maxSessions
       /\ \E session_id \in Uuid4 : StartSession(session_id)

\* ---- POST /transcribe/stream/<session_id> -------------------------------
FeedsInFlight == Cardinality({t \in Pool : ~Resting(feed[t].pc)})

BeginFeed(t, ids, sizes, maxEntries) ==
    /\ Free(t)
    /\ clock + FeedsInFlight <= maxEntries
    /\ \E session_id \in ids, n \in sizes :
         feed' = [feed EXCEPT ![t] = [FeedIdle EXCEPT !.pc = "check",
                                         !.session_id = session_id, !.audio_length = n]]
    /\ obs' = [obs EXCEPT ![t] = ObserveIdle]
    /\ end' = [end EXCEPT ![t] = EndIdle]
    /\ UNCHANGED <<req, transcribe_client, active_sessions, heap, clock, start_result>>

FeedFail(t, status, error) ==
    feed' = [feed EXCEPT ![t] = [@ EXCEPT !.pc = "done", !.session = NoRef,
                                   !.status = status, !.error = error]]

\* the body of the request is tested before the session
FeedCheck_m(t) ==
    /\ feed[t].pc = "check"
    /\ IF feed[t].audio_length = 0
         THEN FeedFail(t, 400, "No audio data provided")
         ELSE IF feed[t].session_id \notin DOMAIN active_sessions
                THEN FeedFail(t, 404, "Session not found")
                ELSE feed' = [feed EXCEPT ![t].pc = "lookup"]
    /\ UNCHANGED <<req, transcribe_client, active_sessions, heap, clock, start_result, obs, end>>

\* lines 733-739: existence test, then the body of the request
FeedCheck(t) ==
    /\ feed[t].pc = "check"
    /\ IF feed[t].session_id \notin DOMAIN active_sessions
         THEN FeedFail(t, 404, "Session not found")
         ELSE IF feed[t].audio_length = 0
                THEN FeedFail(t, 400, "No audio data provided")
                ELSE feed' = [feed EXCEPT ![t].pc = "lookup"]
    /\ UNCHANGED <<req, transcribe_client, active_sessions, heap, clock, start_result, obs, end>>

\* a lookup that works on a copy of the session
FeedLookup_m(t) ==
    /\ feed[t].pc = "lookup"
    /\ IF feed[t].session_id \in DOMAIN active_sessions
         THEN /\ feed' = [feed EXCEPT ![t].pc = "sleep", ![t].session = Len(heap) + 1]
              /\ heap' = Append(heap, heap[active_sessions[feed[t].session_id]])
         ELSE /\ FeedFail(t, 500, "Failed to process audio")
              /\ UNCHANGED heap
    /\ UNCHANGED <<req, transcribe_client, active_sessions, clock, start_result, obs, end>>

\* line 742 inside the try block: a missing key ends in the except clause
FeedLookup(t) ==
    /\ feed[t].pc = "lookup"
    /\ IF feed[t].session_id \in DOMAIN active_sessions
         THEN feed' = [feed EXCEPT ![t].pc = "sleep",
                                   ![t].session = active_sessions[feed[t].session_id]]
         ELSE FeedFail(t, 500, "Failed to process audio")
    /\ UNCHANGED <<req, transcribe_client, active_sessions, heap, clock, start_result, obs, end>>

\* a mock transcription that puts the new entry in front
FeedAppend_m(t) ==
    /\ feed[t].pc = "sleep"
    /\ feed' = [feed EXCEPT ![t].pc = "respond"]
    /\ \/ /\ feed[t].audio_length > SubstantialAudio
          /\ \E speaker \in SpeakerIds :
               heap' = [heap EXCEPT ![feed[t].session].transcript = <<MockEntry(speaker)>> \o @]
          /\ clock' = clock + 1
       \/ UNCHANGED <<heap, clock>>
    /\ UNCHANGED <<req, transcribe_client, active_sessions, start_result, obs, end>>

\* lines 753-783: after the processing delay, the mock transcription
FeedAppend(t) ==
    /\ feed[t].pc = "sleep"
    /\ feed' = [feed EXCEPT ![t].pc = "respond"]
    /\ \/ /\ feed[t].audio_length > SubstantialAudio
          /\ \E speaker \in SpeakerIds :
               heap' = [heap EXCEPT ![feed[t].session].transcript = Append(@, MockEntry(speaker))]
          /\ clock' = clock + 1
       \/ UNCHANGED <<heap, clock>>
    /\ UNCHANGED <<req, transcribe_client, active_sessions, start_result, obs, end>>

\* a response that does not count the transcript
FeedRespond_m(t) ==
    /\ feed[t].pc = "respond"
    /\ feed' = [feed EXCEPT ![t] = [@ EXCEPT !.pc = "done", !.session = NoRef, !.status = 200,
                                      !.audio_size = feed[t].audio_length,
                                      !.transcript_count = 0]]
    /\ UNCHANGED <<req, transcribe_client, active_sessions, heap, clock, start_result, obs, end>>

\* lines 785-790
FeedRespond(t) ==
    /\ feed[t].pc = "respond"
    /\ feed' = [feed EXCEPT ![t] = [@ EXCEPT !.pc = "done", !.session = NoRef, !.status = 200,
                                      !.audio_size = feed[t].audio_length,
                                      !.transcript_count = Len(heap[feed[t].session].transcript)]]
    /\ UNCHANGED <<req, transcribe_client, active_sessions, heap, clock, start_result, obs, end>>

stream_transcription(t, ids, sizes, maxEntries) ==
    \/ BeginFeed(t, ids, sizes, maxEntries)
    \/ FeedCheck(t)
    \/ FeedLookup(t)
    \/ FeedAppend(t)
    \/ FeedRespond(t)

\* ---- GET /transcribe/events/<session_id> --------------------------------
\* line 811: the response (status 200, event stream) is returned at once
BeginObserve(t, ids) ==
    /\ Free(t)
    /\ \E session_id \in ids :
         obs' = [obs EXCEPT ![t] = [ObserveIdle EXCEPT !.pc = "check", !.session_id = session_id,
                                      !.status = 200, !.stream = "open"]]
    /\ feed' = [feed EXCEPT ![t] = FeedIdle]
    /\ end' = [end EXCEPT ![t] = EndIdle]
    /\ UNCHANGED <<req, transcribe_client, active_sessions, heap, clock, start_result>>

\* line 799: the loop test; the generator returns when the key is gone
ObserveCheck(t) ==
    /\ obs[t].pc = "check"
    /\ IF obs[t].session_id \in DOMAIN active_sessions
         THEN obs' = [obs EXCEPT ![t].pc = "lookup"]
         ELSE obs' = [obs EXCEPT ![t].pc = "done", ![t].session = NoRef, ![t].stream = "closed"]
    /\ UNCHANGED <<req, transcribe_client, active_sessions, heap, clock, start_result, feed, end>>

\* line 800: a missing key raises out of the generator
ObserveLookup(t) ==
    /\ obs[t].pc = "lookup"
    /\ IF obs[t].session_id \in DOMAIN active_sessions
         THEN obs' = [obs EXCEPT ![t].pc = "emit",
                                 ![t].session = active_sessions[obs[t].session_id]]
         ELSE obs' = [obs EXCEPT ![t].pc = "done", ![t].session = NoRef, ![t].stream = "error"]
    /\ UNCHANGED <<req, transcribe_client, active_sessions, heap, clock, start_result, feed, end>>

\* a polling cycle that takes the entries it yields out of the transcript
ObserveEmit_m(t) ==
    /\ obs[t].pc = "emit"
    /\ LET transcript == heap[obs[t].session].transcript IN
         /\ obs' = [obs EXCEPT ![t].pc = "sleep",
                               ![t].out = IF transcript # <<>>
                                            THEN <<[session_id |-> obs[t].session_id,
                                                    transcript |-> LatestEntries(transcript)]>>
                                            ELSE <<>>]
         /\ heap' = [heap EXCEPT ![obs[t].session].transcript = <<>>]
    /\ UNCHANGED <<req, transcribe_client, active_sessions, clock, start_result, feed, end>>

\* lines 801-808: out holds what this polling cycle yielded
ObserveEmit(t) ==
    /\ obs[t].pc = "emit"
    /\ LET transcript == heap[obs[t].session].transcript IN
         obs' = [obs EXCEPT ![t].pc = "sleep",
                            ![t].out = IF transcript # <<>>
                                         THEN <<[session_id |-> obs[t].session_id,
                                                 transcript |-> LatestEntries(transcript)]>>
                                         ELSE <<>>]
    /\ UNCHANGED <<req, transcribe_client, active_sessions, heap, clock, start_result, feed, end>>

\* line 809
ObserveSleep(t) ==
    /\ obs[t].pc = "sleep"
    /\ obs' = [obs EXCEPT ![t].pc = "check"]
    /\ UNCHANGED <<req, transcribe_client, active_sessions, heap, clock, start_result, feed, end>>

get_transcription_events(t, ids) ==
    \/ BeginObserve(t, ids)
    \/ ObserveCheck(t)
    \/ ObserveLookup(t)
    \/ ObserveEmit(t)
    \/ ObserveSleep(t)

\* ---- POST /transcribe/end/<session_id> ----------------------------------
BeginEnd(t, ids) ==
    /\ Free(t)
    /\ \E session_id \in ids :
         end' = [end EXCEPT ![t] = [EndIdle EXCEPT !.pc = "check", !.session_id = session_id]]
    /\ feed' = [feed EXCEPT ![t] = FeedIdle]
    /\ obs' = [obs EXCEPT ![t] = ObserveIdle]
    /\ UNCHANGED <<req, transcribe_client, active_sessions, heap, clock, start_result>>

EndFail(t, status, error) ==
    end' = [end EXCEPT ![t] = [@ EXCEPT !.pc = "done", !.session = NoRef, !.copy = <<>>,
                                 !.status = status, !.error = error]]

\* lines 139-140
EndCheck(t) ==
    /\ end[t].pc = "check"
    /\ IF end[t].session_id \notin DOMAIN active_sessions
         THEN EndFail(t, 400, "Session not found")
         ELSE end' = [end EXCEPT ![t].pc = "lookup"]
    /\ UNCHANGED <<req, transcribe_client, active_sessions, heap, clock, start_result, feed, obs>>

\* line 142: an uncaught KeyError is answered with status 500
EndLookup(t) ==
    /\ end[t].pc = "lookup"
    /\ IF end[t].session_id \in DOMAIN active_sessions
         THEN end' = [end EXCEPT ![t].pc = "copy",
                                 ![t].session = active_sessions[end[t].session_id]]
         ELSE EndFail(t, 500, "KeyError")
    /\ UNCHANGED <<req, transcribe_client, active_sessions, heap, clock, start_result, feed, obs>>

\* a copy that marks the session inactive before it is removed
EndCopy_m(t) ==
    /\ end[t].pc = "copy"
    /\ end' = [end EXCEPT ![t].pc = "del", ![t].copy = heap[end[t].session].transcript]
    /\ heap' = [heap EXCEPT ![end[t].session].is_active = FALSE]
    /\ UNCHANGED <<req, transcribe_client, active_sessions, clock, start_result, feed, obs>>

\* line 143
EndCopy(t) ==
    /\ end[t].pc = "copy"
    /\ end' = [end EXCEPT ![t].pc = "del", ![t].copy = heap[end[t].session].transcript]
    /\ UNCHANGED <<req, transcribe_client, active_sessions, heap, clock, start_result, feed, obs>>

\* a removal that tolerates a missing key, as active_sessions.pop(id, None)
EndDel_m(t) ==
    /\ end[t].pc = "del"
    /\ active_sessions' = DelKey(active_sessions, end[t].session_id)
    /\ end' = [end EXCEPT ![t] = [@ EXCEPT !.pc = "done", !.session = NoRef, !.copy = <<>>,
                                     !.status = 200,
                                     !.final_transcript = end[t].copy,
                                     !.total_entries = Len(end[t].copy)]]
    /\ UNCHANGED <<req, transcribe_client, heap, clock, start_result, feed, obs>>

\* lines 146-153
EndDel(t) ==
    /\ end[t].pc = "del"
    /\ IF end[t].session_id \in DOMAIN active_sessions
         THEN /\ active_sessions' = DelKey(active_sessions, end[t].session_id)
              /\ end' = [end EXCEPT ![t] = [@ EXCEPT !.pc = "done", !.session = NoRef, !.copy = <<>>,
                                              !.status = 200,
                                              !.final_transcript = end[t].copy,
                                              !.total_entries = Len(end[t].copy)]]
         ELSE /\ EndFail(t, 500, "KeyError")
              /\ UNCHANGED active_sessions
    /\ UNCHANGED <<req, transcribe_client, heap, clock, start_result, feed, obs>>

end_transcription(t, ids) ==
    \/ BeginEnd(t, ids)
    \/ EndCheck(t)
    \/ EndLookup(t)
    \/ EndCopy(t)
    \/ EndDel(t)

\* ---- the session manager --------------------------------------------------
Next ==
    \/ start_transcription(NumIds)
    \/ \E t \in Threads : stream_transcription(t, Ids, EmptyOrSubstantial, MaxEntries)
    \/ \E t \in Threads : get_transcription_events(t, Ids)
    \/ \E t \in Threads : end_transcription(t, Ids)

\* requests in flight on NumThreads threads at once
Spec == Init(Threads) /\ [][Next]_vars

\* ---- Start, Feed and End only, on the threads of Clients -----------------
NextLifecycle ==
    \/ start_transcription(NumIds)
    \/ \E t \in Clients : stream_transcription(t, Ids, EmptyOrSubstantial, MaxEntries)
    \/ \E t \in Clients : end_transcription(t, Ids)

SpecLifecycle == Init(Clients) /\ [][NextLifecycle]_vars

\* ---- one session, fed substantial chunks and observed -------------------
LiveIds == DOMAIN active_sessions

NextTail ==
    \/ start_transcription(1)
    \/ \E t \in Clients : stream_transcription(t, LiveIds, {SubstantialAudio + 1}, TailEntries)
    \/ \E t \in Clients : get_transcription_events(t, LiveIds)

SpecTail == Init(Clients) /\ [][NextTail]_vars

\* ---- one session, fed chunks of every size class and ended --------------
NextFeed ==
    \/ start_transcription(1)
    \/ \E t \in Clients : stream_transcription(t, Ids, AudioSizes, MaxEntries)
    \/ \E t \in Clients : end_transcription(t, Ids)

SpecFeed == Init(Clients) /\ [][NextFeed]_vars

\* ---- one session, fed and ended by the threads of Threads at once -------
NextEnd ==
    \/ start_transcription(1)
    \/ \E t \in Threads : stream_transcription(t, {1}, {SubstantialAudio + 1}, MaxEntries)
    \/ \E t \in Threads : end_transcription(t, {1})

SpecEnd == Init(Threads) /\ [][NextEnd]_vars

\* ---- two sessions, fed substantial chunks and ended ----------------------
NextPrivate ==
    \/ start_transcription(2)
    \/ \E t \in Clients : stream_transcription(t, {1, 2}, {SubstantialAudio + 1}, SharedEntries)
    \/ \E t \in Clients : end_transcription(t, {1, 2})

SpecPrivate == Init(Clients) /\ [][NextPrivate]_vars

\* ---- every handler of the session manager, one request at a time per client
NextPersist ==
    \/ start_transcription(2)
    \/ \E t \in Clients : stream_transcription(t, Ids, {SubstantialAudio + 1}, MaxEntries)
    \/ \E t \in Clients : get_transcription_events(t, Ids)
    \/ \E t \in Clients : end_transcription(t, Ids)

SpecPersist == Init(Clients) /\ [][NextPersist]_vars

\* ---- concurrent event streams beside the Feeds of one client -------------
NextObservers ==
    \/ start_transcription(2)
    \/ \E t \in Clients : stream_transcription(t, {1, 2}, {SubstantialAudio + 1}, MaxEntries)
    \/ \E t \in Threads : get_transcription_events(t, {1, 2})

SpecObservers == Init(Threads) /\ [][NextObservers]_vars

\* ---- one session that is not ended, fed by the threads of Threads at once
NextConcurrent ==
    \/ start_transcription(1)
    \/ \E t \in Threads : stream_transcription(t, {1}, {SubstantialAudio + 1}, SharedEntries)

SpecConcurrent == Init(Threads) /\ [][NextConcurrent]_vars

\* ==== the handlers without shared state ==================================
sessionVars == <<transcribe_client, active_sessions, heap, clock, start_result, feed, obs, end>>

\* the server serves the one request (or helper call) drawn from requests
InitStateless(requests) ==
    /\ transcribe_client = FALSE
    /\ active_sessions = <<>>
    /\ heap = <<>>
    /\ clock = 1
    /\ start_result = NoResult
    /\ feed = <<>>
    /\ obs = <<>>
    /\ end = <<>>
    /\ req \in requests

Min(a, b) == IF a <= b THEN a ELSE b

\* ---- truncate_text -------------------------------------------------------
\* seq[:stop] of Python: a negative stop counts from the end
PyHead(seq, stop) ==
    IF stop >= 0 THEN SubSeq(seq, 1, Min(stop, Len(seq)))
                 ELSE SubSeq(seq, 1, Max(0, Len(seq) + stop))

\* "\n\n[...truncated...]\n\n"
TruncationMarker ==
    <<"\n", "\n", "[", ".", ".", ".", "t", "r", "u", "n", "c", "a", "t", "e", "d",
      ".", ".", ".", "]", "\n", "\n">>

\* a comparison that also truncates a text of exactly max_chars characters
truncate_text_m(text, max_chars) ==
    IF Len(text) < max_chars
      THEN text
      ELSE PyHead(text, max_chars - TailChars) \o TruncationMarker \o LastN(text, TailChars)

\* lines 182-188
truncate_text(text, max_chars) ==
    IF Len(text) <= max_chars
      THEN text
      ELSE PyHead(text, max_chars - TailChars) \o TruncationMarker \o LastN(text, TailChars)

\* texts of every length around every budget; the characters of a text
\* repeat with a period that divides neither TailChars nor the marker length
Letters == <<"a", "b", "c", "d", "e", "f", "g">>
TextOfLength(n) == [i \in 1..n |-> Letters[((i - 1) % Len(Letters)) + 1]]
Budgets == {0, TailChars - 1, TailChars, TailChars + 1, TailChars + LengthSlack}
TextLengths == {b + d : b \in Budgets, d \in (0 - LengthSlack)..LengthSlack} \cap Nat
TruncateCalls ==
    {[pc |-> "call", text |-> TextOfLength(n), max_chars |-> b, result |-> <<>>] :
        n \in TextLengths, b \in Budgets}

TruncateText ==
    /\ req.pc = "call"
    /\ req' = [req EXCEPT !.pc = "done", !.result = truncate_text(req.text, req.max_chars)]
    /\ UNCHANGED sessionVars

NextTruncate == TruncateText

SpecTruncate == InitStateless(TruncateCalls) /\ [][NextTruncate]_vars

\* ---- naive_placeholder_summary ------------------------------------------
\* str.lower() on the letters of the alphabet
LowerOf ==
    ("A" :> "a") @@ ("B" :> "b") @@ ("C" :> "c") @@ ("D" :> "d") @@ ("E" :> "e") @@ ("F" :> "f") @@ ("G" :> "g") @@ ("H" :> "h") @@ ("I" :> "i") @@ ("J" :> "j") @@ ("K" :> "k") @@ ("L" :> "l") @@ ("M" :> "m")
    @@ ("N" :> "n") @@ ("O" :> "o") @@ ("P" :> "p") @@ ("Q" :> "q") @@ ("R" :> "r") @@ ("S" :> "s") @@ ("T" :> "t") @@ ("U" :> "u") @@ ("V" :> "v") @@ ("W" :> "w") @@ ("X" :> "x") @@ ("Y" :> "y") @@ ("Z" :> "z")

LowerChar(c) == IF c \in DOMAIN LowerOf THEN LowerOf[c] ELSE c
Lower(line) == [i \in 1..Len(line) |-> LowerChar(line[i])]

\* key in line
Contains(line, key) ==
    \E i \in 1..(Len(line) - Len(key) + 1) : SubSeq(line, i, i + Len(key) - 1) = key

Whitespace == {" ", "\t"}

\* str.strip(chars)
StripChars(line, chars) ==
    LET n == Len(line)
        lead == CHOOSE k \in 0..n :
                   /\ \A i \in 1..k : line[i] \in chars
                   /\ (k = n \/ line[k + 1] \notin chars)
        trail == CHOOSE k \in 0..n :
                   /\ \A i \in (n - k + 1)..n : line[i] \in chars
                   /\ (k = n \/ line[n - k] \notin chars)
    IN  SubSeq(line, lead + 1, n - trail)

\* str.strip()
Strip(line) == StripChars(line, Whitespace)

\* the k-th least element of a set of numbers
NthLeast(S, k) == CHOOSE x \in S : Cardinality({y \in S : y < x}) = k - 1

\* str.splitlines() for the line break "\n": no empty last line
SplitLines(text) ==
    LET n == Len(text)
        breaks == {i \in 1..n : text[i] = "\n"}
        count == IF n = 0 THEN 0
                 ELSE IF text[n] = "\n" THEN Cardinality(breaks) ELSE Cardinality(breaks) + 1
        BreakAt(k) == IF k = 0 THEN 0
                      ELSE IF k > Cardinality(breaks) THEN n + 1 ELSE NthLeast(breaks, k)
    IN  [k \in 1..count |-> SubSeq(text, BreakAt(k - 1) + 1, BreakAt(k) - 1)]

\* position of text[i] = "\n" in its run of line breaks, counted from 1
BreakRunOffset(text, i) ==
    CHOOSE k \in 1..i :
       /\ \A m \in (i - k + 1)..i : text[m] = "\n"
       /\ (k = i \/ text[i - k] # "\n")

\* text.replace("\n\n", "\n"): scanning from the left, the second line break
\* of every pair is dropped
ReplaceDoubleBreaks(text) ==
    LET n == Len(text)
        dropped == {i \in 1..n : text[i] = "\n" /\ BreakRunOffset(text, i) % 2 = 0}
        Shift(j) == CHOOSE k \in 0..Cardinality(dropped) :
                       /\ j + k <= n
                       /\ (j + k) \notin dropped
                       /\ Cardinality({d \in dropped : d < j + k}) = k
    IN  [j \in 1..(n - Cardinality(dropped)) |-> text[j + Shift(j)]]

RECURSIVE Join(_, _)
\* sep.join(lines)
Join(lines, sep) ==
    IF lines = <<>> THEN <<>>
    ELSE IF Len(lines) = 1 THEN lines[1]
    ELSE lines[1] \o sep \o Join(Tail(lines), sep)

DiagnosisKeys ==
    {<<"d", "i", "a", "g">>,
     <<"d", "x">>,
     <<"i", "m", "p", "r", "e", "s", "s", "i", "o", "n">>,
     <<"a", "s", "s", "e", "s", "s", "m", "e", "n", "t">>}
MedicationKeys ==
    {<<"m", "e", "d">>,
     <<"r", "x">>,
     <<"p", "r", "e", "s", "c", "r", "i", "b">>,
     <<"d", "o", "s", "a", "g", "e">>}
AllergyKeys ==
    {<<"a", "l", "l", "e", "r", "g">>,
     <<"r", "e", "a", "c", "t", "i", "o", "n">>}
ProcedureKeys ==
    {<<"p", "r", "o", "c", "e", "d", "u", "r", "e">>,
     <<"s", "u", "r", "g", "e", "r", "y">>,
     <<"o", "p", "e", "r", "a", "t", "i", "o", "n">>}

\* '- (none detected in sample)'
NoneDetected ==
    <<"-", " ", "(", "n", "o", "n", "e", " ", "d", "e", "t", "e", "c", "t", "e", "d", " ", "i", "n", " ", "s", "a", "m", "p", "l", "e", ")">>

\* "- "
Bullet == <<"-", " ">>

MatchesAny(line, keys) == \E key \in keys : Contains(Lower(line), key)

\* a search that compares the line as written, not its lower-case form
grep_m(lines, keys) ==
    PyHead(SelectSeq(lines, LAMBDA line : \E key \in keys : Contains(line, key)), MaxHits)

\* lines 199-205
grep(lines, keys) ==
    PyHead(SelectSeq(lines, LAMBDA line : MatchesAny(line, keys)), MaxHits)

\* lines 212-215: '\n'.join('- ' + d for d in hits) or '- (none detected in sample)'
SectionText(hits) ==
    LET joined == Join([i \in 1..Len(hits) |-> Bullet \o hits[i]], <<"\n">>)
    IN  IF joined = <<>> THEN NoneDetected ELSE joined

\* lines 191-240.  The result holds the four interpolated section texts and
\* the file count; the fixed wording of the template around them is left out.
naive_placeholder_summary(combined_text, file_count) ==
    LET sample == ReplaceDoubleBreaks(PyHead(combined_text, SampleChars))
        split == SplitLines(sample)
        stripped == [i \in 1..Len(split) |-> Strip(split[i])]
        lines == SelectSeq(stripped, LAMBDA l : l # <<>>)
    IN  [file_count |-> file_count,
         diagnoses |-> SectionText(grep(lines, DiagnosisKeys)),
         meds |-> SectionText(grep(lines, MedicationKeys)),
         allergies |-> SectionText(grep(lines, AllergyKeys)),
         procedures |-> SectionText(grep(lines, ProcedureKeys))]

\* ---- the texts the summarizer is given ------------------------------------
\* a text is numLines lines taken in turn from a menu, joined by a separator,
\* after an optional first line of filler letters that pushes them towards
\* and across the end of the sample
LineMenus ==
    {\* "Dx a" again and again
     << <<"D", "x", " ", "a">> >>,
     \* "Dx a" and "diag med" in turn
     << <<"D", "x", " ", "a">>, <<"d", "i", "a", "g", " ", "m", "e", "d">> >>,
     \* " rx 5 ", "ok", "  ", "Surgery", "ALLERGY rx"
     << <<" ", "r", "x", " ", "5", " ">>, <<"o", "k">>, <<" ", " ">>,
        <<"S", "u", "r", "g", "e", "r", "y">>,
        <<"A", "L", "L", "E", "R", "G", "Y", " ", "r", "x">> >>,
     \* "  " and "ok": nothing to detect
     << <<" ", " ">>, <<"o", "k">> >>}

Separators == {<<"\n">>, <<"\n", "\n">>}

MenuLines(menu, numLines) == [i \in 1..numLines |-> menu[((i - 1) % Len(menu)) + 1]]

Filler(n) == [i \in 1..n |-> "o"]

FillerLengths == {SampleChars - k : k \in 0..CutSlack}

SummaryText(menu, numLines, sep, fill) ==
    IF fill = 0 THEN Join(MenuLines(menu, numLines), sep)
    ELSE Join(<<Filler(fill)>> \o MenuLines(menu, numLines), sep)

PlaceholderCalls ==
    {[pc |-> "call", text |-> SummaryText(menu, numLines, sep, fill), file_count |-> 1,
      result |-> <<>>] :
        menu \in LineMenus, numLines \in 0..MaxLines, sep \in Separators, fill \in {0}}
    \cup
    {[pc |-> "call", text |-> SummaryText(menu, numLines, sep, fill), file_count |-> 1,
      result |-> <<>>] :
        menu \in LineMenus, numLines \in 1..2, sep \in Separators, fill \in FillerLengths}

PlaceholderSummary ==
    /\ req.pc = "call"
    /\ req' = [req EXCEPT !.pc = "done",
                          !.result = naive_placeholder_summary(req.text, req.file_count)]
    /\ UNCHANGED sessionVars

NextPlaceholder == PlaceholderSummary

SpecPlaceholder == InitStateless(PlaceholderCalls) /\ [][NextPlaceholder]_vars

\* ---- call_openai_summary ------------------------------------------------
\* the strings call_openai_summary returns, and the exceptions a model call
\* raises (numbered, 0 for none)
Content(kind, detail) == [kind |-> kind, detail |-> detail]
EmptyContent == Content("", 0)
Errors == 1..NumErrors

\* lines 259-261
FixedModels == <<"gpt-5", "gpt-5-mini", "gpt-4o-mini">>

\* values of OPENAI_MODEL after strip(): unset, a model of its own, and the
\* first and the last name of the fixed list
Overrides == {"", "my-model", "gpt-5", "gpt-4o-mini"}

\* outcome of the imports of lines 20-28 and of OpenAI(api_key=...) at line 266
ClientStates == {"modern", "modern_broken", "legacy", "unavailable"}

\* an override that is tried after the fixed list
CandidateModels_m(env_model) ==
    FixedModels \o (IF env_model # "" THEN <<env_model>> ELSE <<>>)

\* lines 254-262
CandidateModels(env_model) ==
    (IF env_model # "" THEN <<env_model>> ELSE <<>>) \o FixedModels

NoResponse == [status |-> 0, error |-> "", summary |-> EmptyContent, model |-> "", note |-> EmptyContent]

\* one request with its environment; parts are the uploaded files of a
\* /summarize request
Request(pc, parts, api_key, env_model, client) ==
    [pc |-> pc, parts |-> parts, accepted_count |-> 0,
     api_key |-> api_key, env_model |-> env_model, client |-> client,
     candidate_models |-> <<>>, next |-> 1, last_error |-> 0, tried |-> <<>>,
     result |-> <<>>, response |-> NoResponse]

\* lines 250-267 and 292-296: up to the first model call
OpenAiStart ==
    /\ req.pc = "call"
    /\ IF req.api_key = ""
         THEN req' = [req EXCEPT !.pc = "returned", !.result = <<FALSE, EmptyContent, "">>]
         ELSE CASE req.client = "modern" ->
                     req' = [req EXCEPT !.pc = "loop",
                                        !.candidate_models = CandidateModels(req.env_model)]
                [] req.client = "modern_broken" ->
                     req' = [req EXCEPT !.pc = "returned",
                                        !.candidate_models = CandidateModels(req.env_model),
                                        !.result = <<FALSE, Content("OpenAI client error", 0), "">>]
                [] req.client = "legacy" ->
                     req' = [req EXCEPT !.pc = "loop",
                                        !.candidate_models = CandidateModels(req.env_model)]
                [] req.client = "unavailable" ->
                     req' = [req EXCEPT !.pc = "returned",
                                        !.candidate_models = CandidateModels(req.env_model),
                                        !.result = <<FALSE, Content("OpenAI client not available.", 0)>>]
    /\ UNCHANGED sessionVars

\* lines 268-290 and 297-318: one turn of the loop, the call of one model
OpenAiTry ==
    /\ req.pc = "loop"
    /\ req.next <= Len(req.candidate_models)
    /\ LET model == req.candidate_models[req.next] IN
         \/ req' = [req EXCEPT !.pc = "returned",
                               !.tried = Append(@, [model |-> model, error |-> 0]),
                               !.result = <<TRUE, Content("summary", 0), model>>]
         \/ \E e \in Errors :
              req' = [req EXCEPT !.next = @ + 1,
                                 !.last_error = e,
                                 !.tried = Append(@, [model |-> model, error |-> e])]
    /\ UNCHANGED sessionVars

\* lines 291 and 319: every model call raised
OpenAiGiveUp ==
    /\ req.pc = "loop"
    /\ req.next > Len(req.candidate_models)
    /\ req' = [req EXCEPT !.pc = "returned",
                          !.result = <<FALSE,
                                       Content("OpenAI call failed across models. Last error", req.last_error),
                                       "">>]
    /\ UNCHANGED sessionVars

call_openai_summary ==
    \/ OpenAiStart
    \/ OpenAiTry
    \/ OpenAiGiveUp

OpenAiCalls ==
    {Request("call", <<>>, api_key, env_model, client) :
        api_key \in {"", "sk-key"}, env_model \in Overrides, client \in ClientStates}

NextOpenAi == call_openai_summary

SpecOpenAi == InitStateless(OpenAiCalls) /\ [][NextOpenAi]_vars

\* ---- POST /summarize ----------------------------------------------------
\* an uploaded part: without a filename, not a PDF by MIME type or name, a
\* PDF that yields no text, or a PDF that yields text
PartKinds == {"unnamed", "not_pdf", "unreadable_pdf", "pdf"}

PartLists == UNION {[1..n -> PartKinds] : n \in 0..MaxParts}

\* a handler that counts every uploaded part as a document
SummarizeReceive_m ==
    /\ req.pc = "receive"
    /\ LET extracted_texts == SelectSeq(req.parts, LAMBDA part : part = "pdf") IN
         IF req.parts = <<>>
           THEN req' = [req EXCEPT !.pc = "done",
                                   !.response = [NoResponse EXCEPT !.status = 400,
                                                   !.error = "No files provided. Please upload one or more PDFs."]]
           ELSE IF extracted_texts = <<>>
             THEN req' = [req EXCEPT !.pc = "done",
                                     !.response = [NoResponse EXCEPT !.status = 400,
                                                     !.error = "No readable text was extracted from the uploaded PDFs."]]
             ELSE req' = [req EXCEPT !.pc = "call", !.accepted_count = Len(req.parts)]
    /\ UNCHANGED sessionVars

\* lines 828-851: the texts extracted; without one the request is refused
SummarizeReceive ==
    /\ req.pc = "receive"
    /\ LET extracted_texts == SelectSeq(req.parts, LAMBDA part : part = "pdf") IN
         IF req.parts = <<>>
           THEN req' = [req EXCEPT !.pc = "done",
                                   !.response = [NoResponse EXCEPT !.status = 400,
                                                   !.error = "No files provided. Please upload one or more PDFs."]]
           ELSE IF extracted_texts = <<>>
             THEN req' = [req EXCEPT !.pc = "done",
                                     !.response = [NoResponse EXCEPT !.status = 400,
                                                     !.error = "No readable text was extracted from the uploaded PDFs."]]
             ELSE req' = [req EXCEPT !.pc = "call", !.accepted_count = Len(extracted_texts)]
    /\ UNCHANGED sessionVars

\* lines 876-885.  The result of the call is unpacked into three names; a
\* result of another length raises ValueError, which Flask answers with 500.
\* The placeholder summary stands for naive_placeholder_summary(combined,
\* accepted_count).
SummarizeRespond ==
    /\ req.pc = "returned"
    /\ req' = [req EXCEPT !.pc = "done",
                          !.response =
                             IF Len(req.result) # 3
                               THEN [NoResponse EXCEPT !.status = 500, !.error = "ValueError"]
                             ELSE IF req.result[1]
                               THEN [NoResponse EXCEPT !.status = 200,
                                                       !.summary = req.result[2],
                                                       !.model = req.result[3]]
                               ELSE [NoResponse EXCEPT !.status = 200,
                                                       !.summary = Content("placeholder", req.accepted_count),
                                                       !.model = "placeholder",
                                                       !.note = req.result[2]]]
    /\ UNCHANGED sessionVars

summarize ==
    \/ SummarizeReceive
    \/ call_openai_summary
    \/ SummarizeRespond

SummarizeRequests ==
    {Request("receive", parts, api_key, env_model, client) :
        parts \in PartLists, api_key \in {"", "sk-key"}, env_model \in {"", "my-model"},
        client \in ClientStates}

NextSummarize == summarize

SpecSummarize == InitStateless(SummarizeRequests) /\ [][NextSummarize]_vars

\* ---- POST /upload-audio -------------------------------------------------
\* line 49
ALLOWED_AUDIO_EXTENSIONS ==
    {<<"m", "p", "3">>, <<"m", "p", "4">>, <<"m", "4", "a">>, <<"w", "a", "v">>, <<"a", "a", "c">>, <<"o", "g", "g">>}

\* the characters werkzeug's secure_filename keeps: ASCII letters, digits,
\* "_", "." and "-"
SafeChars ==
    {"a", "b", "g", "m", "o", "p", "t", "v", "w", "x", "A", "V", "W", "3", "4", "_", ".", "-"}

AsciiChars == SafeChars \cup {" ", "/", "(", ")"}

\* werkzeug.utils.secure_filename: non-ASCII characters are dropped, path
\* separators become blanks, runs of blanks between words become one "_",
\* every character outside SafeChars is dropped, and "." and "_" are
\* stripped from both ends
secure_filename(filename) ==
    LET ascii == SelectSeq(filename, LAMBDA c : c \in AsciiChars)
        spaced == [i \in 1..Len(ascii) |-> IF ascii[i] = "/" THEN " " ELSE ascii[i]]
        n == Len(spaced)
        Kept(i) == \/ spaced[i] # " "
                   \/ /\ i > 1
                      /\ spaced[i - 1] # " "
                      /\ \E j \in (i + 1)..n : spaced[j] # " "
        indexed == SelectSeq([i \in 1..n |-> <<i, spaced[i]>>], LAMBDA p : Kept(p[1]))
        joined == [k \in 1..Len(indexed) |-> IF indexed[k][2] = " " THEN "_" ELSE indexed[k][2]]
    IN  StripChars(SelectSeq(joined, LAMBDA c : c \in SafeChars), {".", "_"})

\* filename.rsplit(".", 1)[1] of a filename with a dot
Extension(filename) ==
    LET dots == {i \in 1..Len(filename) : filename[i] = "."}
        last == CHOOSE i \in dots : \A j \in dots : j <= i
    IN  SubSeq(filename, last + 1, Len(filename))

\* lines 155-156
is_allowed_audio_filename(filename) ==
    /\ \E i \in 1..Len(filename) : filename[i] = "."
    /\ Lower(Extension(filename)) \in ALLOWED_AUDIO_EXTENSIONS

\* filenames as the client sends them; <<>> is a part without a filename
UploadNames ==
    {<<>>,
     <<"a", ".", "m", "p", "3">>,
     <<"A", " ", "b", ".", "W", "A", "V">>,
     <<"a", ".", "t", "x", "t">>,
     <<"o", "g", "g">>,
     <<".", "m", "4", "a">>,
     <<"日", ".", "a", "a", "c">>,
     <<".", ".", "/", "x", ".", "o", "g", "g">>,
     <<"a", ".", "w", "a", "v", ".">>}

\* a part of the request: its filename and whether fs.save succeeds
UploadParts ==
    {[filename |-> name, save_ok |-> TRUE] : name \in UploadNames}
    \cup {[filename |-> <<"a", ".", "m", "p", "3">>, save_ok |-> FALSE]}

UploadLists == UNION {[1..n -> UploadParts] : n \in 0..MaxUploads}

\* a stored name without the value of uuid4
UniqueName_m(uuid, original_name) ==
    [uuid |-> 0, ext |-> Lower(Extension(original_name))]

\* lines 701-702: f"{uuid.uuid4().hex}.{ext}", uuid being the number of the
\* uuid4 call that made it
UniqueName(uuid, original_name) ==
    [uuid |-> uuid, ext |-> Lower(Extension(original_name))]

\* the request number `request` of the server, with the files of the upload
\* directory (disk: stored name -> the part saved under it), the number of
\* uuid4 calls so far and the files reported by the earlier requests
UploadRequest(parts, request, disk, uuids, history) ==
    [pc |-> "receive", parts |-> parts, next |-> 1, uuids |-> uuids, saved |-> <<>>,
     response |-> [status |-> 0, error |-> "", files |-> <<>>],
     request |-> request, disk |-> disk, history |-> history]

UploadRequests == {UploadRequest(parts, 1, <<>>, 0, <<>>) : parts \in UploadLists}

\* lines 687-694
UploadReceive ==
    /\ req.pc = "receive"
    /\ IF req.parts = <<>>
         THEN req' = [req EXCEPT !.pc = "done",
                                 !.response = [@ EXCEPT !.status = 400,
                                                        !.error = "No audio files provided."]]
         ELSE req' = [req EXCEPT !.pc = "loop"]
    /\ UNCHANGED sessionVars

\* a failing save that ends the loop
UploadPart_m ==
    /\ req.pc = "loop"
    /\ req.next <= Len(req.parts)
    /\ LET fs == req.parts[req.next]
           original_name == secure_filename(fs.filename)
           stored == UniqueName(req.uuids + 1, original_name)
       IN  IF fs.filename = <<>> \/ ~is_allowed_audio_filename(original_name)
             THEN req' = [req EXCEPT !.next = @ + 1]
             ELSE IF ~fs.save_ok
               THEN req' = [req EXCEPT !.next = Len(req.parts) + 1, !.uuids = @ + 1]
               ELSE req' = [req EXCEPT !.next = @ + 1, !.uuids = @ + 1,
                                       !.disk = SetKey(@, stored, <<req.request, req.next>>),
                                       !.saved = Append(@, [name |-> original_name,
                                                            uuid |-> stored.uuid,
                                                            ext |-> stored.ext])]
    /\ UNCHANGED sessionVars

\* lines 695-710: one turn of the loop.  fs.save writes the part to the
\* upload directory under the stored name, over a file of that name if there
\* is one; the MIME type, a function of the extension, is left out.
UploadPart ==
    /\ req.pc = "loop"
    /\ req.next <= Len(req.parts)
    /\ LET fs == req.parts[req.next]
           original_name == secure_filename(fs.filename)
           stored == UniqueName(req.uuids + 1, original_name)
       IN  IF fs.filename = <<>> \/ ~is_allowed_audio_filename(original_name)
             THEN req' = [req EXCEPT !.next = @ + 1]
             ELSE IF ~fs.save_ok
               THEN req' = [req EXCEPT !.next = @ + 1, !.uuids = @ + 1]
               ELSE req' = [req EXCEPT !.next = @ + 1, !.uuids = @ + 1,
                                       !.disk = SetKey(@, stored, <<req.request, req.next>>),
                                       !.saved = Append(@, [name |-> original_name,
                                                            uuid |-> stored.uuid,
                                                            ext |-> stored.ext])]
    /\ UNCHANGED sessionVars

\* lines 712-715
UploadRespond ==
    /\ req.pc = "loop"
    /\ req.next > Len(req.parts)
    /\ req' = [req EXCEPT !.pc = "done",
                          !.response = IF req.saved = <<>>
                                         THEN [@ EXCEPT !.status = 400,
                                                        !.error = "No valid audio files were uploaded."]
                                         ELSE [@ EXCEPT !.status = 200, !.files = req.saved]]
    /\ UNCHANGED sessionVars

upload_audio ==
    \/ UploadReceive
    \/ UploadPart
    \/ UploadRespond

NextUpload == upload_audio

SpecUpload == InitStateless(UploadRequests) /\ [][NextUpload]_vars

\* ---- several /upload-audio requests, one after another ------------------
\* the next request arrives; the upload directory and uuid4 go on
UploadNext(lists, maxRequests) ==
    /\ req.pc = "done"
    /\ req.request < maxRequests
    /\ \E parts \in lists :
         req' = UploadRequest(parts, req.request + 1, req.disk, req.uuids,
                              req.history \o req.saved)
    /\ UNCHANGED sessionVars

\* the same filename again and again, and a filename in capitals
StoreParts ==
    {[filename |-> <<"a", ".", "m", "p", "3">>, save_ok |-> TRUE],
     [filename |-> <<"A", " ", "b", ".", "W", "A", "V">>, save_ok |-> TRUE]}

StoreLists == UNION {[1..n -> StoreParts] : n \in 0..MaxUploads}

NextStore ==
    \/ upload_audio
    \/ UploadNext(StoreLists, MaxRequests)

SpecStore ==
    InitStateless({UploadRequest(parts, 1, <<>>, 0, <<>>) : parts \in StoreLists})
      /\ [][NextStore]_vars

\* ==== process_transcription_event (lines 96-135) ===========================
\* A dict is a function on its keys; dict.get(key, default) of lines 108,
\* 113 and 128
Get(dict, key, default) == IF key \in DOMAIN dict THEN dict[key] ELSE default

\* lines 116-121 and 127: the keys of speaker_info in insertion order
RECURSIVE SpeakerKeys(_)
SpeakerKeys(items) ==
    IF items = <<>>
      THEN <<>>
      ELSE LET before == SpeakerKeys(SubSeq(items, 1, Len(items) - 1))
               item == items[Len(items)]
           IN IF "Speaker" \in DOMAIN item /\ \A i \in 1..Len(before) : before[i] # item.Speaker
                THEN Append(before, item.Speaker)
                ELSE before

\* a test that takes white space for text
HasText_m(text) == text # <<>>

\* line 123: text.strip() is not empty
HasText(text) == Strip(text) # <<>>

\* lines 107-129: the entries the loop over the results appends, the first
\* of them stamped timestamp.  Confidence is counted in hundredths.
RECURSIVE TranscribedEntries(_, _)
TranscribedEntries(results, timestamp) ==
    IF results = <<>>
      THEN <<>>
      ELSE LET result == Head(results) IN
        IF Get(result, "IsPartial", FALSE)
          THEN TranscribedEntries(Tail(results), timestamp)
          ELSE IF "Alternatives" \in DOMAIN result /\ Len(result.Alternatives) > 0
            THEN LET alternative == result.Alternatives[1]
                     text == Get(alternative, "Transcript", <<>>)
                     speaker_info == IF "Items" \in DOMAIN alternative
                                       THEN SpeakerKeys(alternative.Items)
                                       ELSE <<>>
                 IN IF HasText(text)
                      THEN <<[text |-> text, timestamp |-> timestamp,
                              speakers |-> IF speaker_info # <<>> THEN speaker_info
                                                                  ELSE <<"Unknown">>,
                              confidence |-> Get(alternative, "Confidence", 0)]>>
                           \o TranscribedEntries(Tail(results), timestamp + 1)
                      ELSE TranscribedEntries(Tail(results), timestamp)
            ELSE TranscribedEntries(Tail(results), timestamp)

\* lines 104-107: the results of the event, if it has any
ResultsOf(event_data) ==
    IF "Transcript" \in DOMAIN event_data /\ "Results" \in DOMAIN event_data.Transcript
      THEN event_data.Transcript.Results
      ELSE <<>>

\* lines 96-135; req holds the arguments and the value returned
process_transcription_event(event_data, session_id, maxEntries) ==
    IF session_id \notin DOMAIN active_sessions
      THEN /\ req' = [pc |-> "returned", event_data |-> event_data, session_id |-> session_id,
                      result |-> [error |-> "Session not found"]]
           /\ UNCHANGED <<transcribe_client, active_sessions, heap, clock, start_result,
                          feed, obs, end>>
      ELSE LET session == active_sessions[session_id]
               entries == TranscribedEntries(ResultsOf(event_data), clock)
               transcript == heap[session].transcript \o entries
           IN /\ Len(transcript) <= maxEntries
              /\ heap' = [heap EXCEPT ![session].transcript = transcript]
              /\ clock' = clock + Len(entries)
              /\ req' = [pc |-> "returned", event_data |-> event_data, session_id |-> session_id,
                         result |-> [session_id |-> session_id,
                                     transcript |-> LastN(transcript, RecentWindow),
                                     total_entries |-> Len(transcript)]]
              /\ UNCHANGED <<transcribe_client, active_sessions, start_result, feed, obs, end>>

\* ---- the events of the scenario ------------------------------------------
Hello == <<"h", "i">>
Padded == <<" ", "o", "k", " ">>
Blank == <<" ", "\t">>

Labelled(text, speakers) ==
    [Transcript |-> text, Confidence |-> 90,
     Items |-> [i \in 1..Len(speakers) |-> [Content |-> "w", Speaker |-> speakers[i]]]]

Final(alternatives) == [IsPartial |-> FALSE, Alternatives |-> alternatives]

EventOf(results) == [Transcript |-> [Results |-> results]]

\* the results an event is made of
ResultMenu ==
    << Final(<< [Transcript |-> Hello] >>),
       Final(<< Labelled(Padded, <<"spk_0", "spk_1", "spk_0">>), [Transcript |-> Hello] >>),
       [Alternatives |-> << [Transcript |-> Hello, Items |-> << [Content |-> "w"] >>] >>],
       [IsPartial |-> TRUE, Alternatives |-> << [Transcript |-> Hello] >>],
       Final(<< >>),
       [IsPartial |-> FALSE],
       Final(<< Labelled(Blank, <<"spk_0">>) >>),
       Final(<< [Confidence |-> 50] >>) >>

\* events without results, events of one result, and an event of four
\* results of which the second and the fourth are transcribed
EventMenu ==
    << [MessageType |-> "event"], [Transcript |-> [ResultId |-> "r"]], EventOf(<< >>),
       EventOf(<< ResultMenu[1] >>), EventOf(<< ResultMenu[3] >>), EventOf(<< ResultMenu[4] >>),
       EventOf(<< ResultMenu[5] >>), EventOf(<< ResultMenu[6] >>), EventOf(<< ResultMenu[7] >>),
       EventOf(<< ResultMenu[8] >>),
       EventOf(<< ResultMenu[4], ResultMenu[2], ResultMenu[7], ResultMenu[1] >>) >>

NextEvents ==
    \/ start_transcription(1)
    \/ \E k \in 1..Len(EventMenu), session_id \in Ids :
          process_transcription_event(EventMenu[k], session_id, EventEntries)

SpecEvents == Init(Clients) /\ [][NextEvents]_vars

\* ==== properties ==========================================================

\* C1: a Feed or an End whose session id is not in the session table answers
\* 'Session not found' and leaves the table and every transcript unchanged.
C1_UnknownSessionRejected ==
    [][ /\ \A t \in Pool :
             (feed[t].pc = "check" /\ feed'[t].pc # "check"
                /\ feed[t].session_id \notin DOMAIN active_sessions)
             => /\ feed'[t].pc = "done"
                /\ feed'[t].status = 404
                /\ feed'[t].error = "Session not found"
                /\ active_sessions' = active_sessions
                /\ heap' = heap
        /\ \A t \in Pool :
             (end[t].pc = "check" /\ end'[t].pc # "check"
                /\ end[t].session_id \notin DOMAIN active_sessions)
             => /\ end'[t].pc = "done"
                /\ end'[t].status = 400
                /\ end'[t].error = "Session not found"
                /\ active_sessions' = active_sessions
                /\ heap' = heap ]_vars

\* a Feed was refused on the id of a session that an End had removed
C1_Witness ==
    \E t \in Pool :
        /\ feed[t].pc = "done" /\ feed[t].error = "Session not found"
        /\ feed[t].session_id \in IssuedIds \ DOMAIN active_sessions
        /\ DOMAIN active_sessions # {}

\* C2: an Observe on a session id that was never in the session table reports
\* 'not found' (a failure status) to the caller.
C2_ObserveUnknownNotFound ==
    \A t \in Pool :
        (obs[t].pc = "done" /\ obs[t].session_id \notin IssuedIds) => obs[t].status = 404

\* C3: with no transcribe client every Start fails, no session is ever
\* created, and every End that completes answers 'Session not found'.
C3_UnconfiguredStartFails ==
    ~transcribe_client =>
        /\ start_result.status # 200
        /\ DOMAIN active_sessions = {}
        /\ heap = <<>>
        /\ \A t \in Pool : end[t].pc = "done" => end[t].error = "Session not found"

\* a Start has failed and a later End was refused
C3_Witness ==
    /\ ~transcribe_client
    /\ start_result.status = 400
    /\ \E t \in Pool : end[t].pc = "done" /\ end[t].error = "Session not found"

\* C4: with a transcribe client every Start succeeds, returns an id no
\* session was ever created with, inserts exactly that key with an empty
\* transcript and is_active = TRUE, and leaves every other session as it was.
C4_StartCreatesFreshSession ==
    [][ (transcribe_client /\ (start_result' # start_result \/ Len(heap') # Len(heap))) =>
          LET id == start_result'.session_id IN
            /\ start_result'.status = 200
            /\ id \in Ids
            /\ id \notin IssuedIds
            /\ id \notin DOMAIN active_sessions
            /\ DOMAIN active_sessions' = DOMAIN active_sessions \cup {id}
            /\ heap'[active_sessions'[id]].transcript = <<>>
            /\ heap'[active_sessions'[id]].is_active = TRUE
            /\ \A o \in DOMAIN active_sessions :
                 /\ active_sessions'[o] = active_sessions[o]
                 /\ heap'[active_sessions[o]] = heap[active_sessions[o]] ]_vars

\* the latest Start added an empty session next to one that holds an entry
C4_Witness ==
    /\ start_result.status = 200
    /\ start_result.session_id \in DOMAIN active_sessions
    /\ heap[active_sessions[start_result.session_id]].transcript = <<>>
    /\ \E o \in DOMAIN active_sessions :
         /\ o # start_result.session_id
         /\ active_sessions[o] < active_sessions[start_result.session_id]
         /\ heap[active_sessions[o]].transcript # <<>>

\* C5: an End that found its session in the table completes by removing that
\* session and returning the session's entire transcript, with total_entries
\* its length, every other session unchanged.
C5_EndReturnsEntireTranscript ==
    [][ \A t \in Pool :
          (end[t].pc \in {"lookup", "copy", "del"} /\ end'[t].pc = "done") =>
            /\ end'[t].status = 200
            /\ end'[t].final_transcript = heap[end[t].session].transcript
            /\ end'[t].total_entries = Len(end'[t].final_transcript)
            /\ end[t].session_id \in DOMAIN active_sessions
            /\ active_sessions' = DelKey(active_sessions, end[t].session_id)
            /\ heap' = heap ]_vars

\* C6: a transcript grows only while its session object is in the table.
C6_AppendOnlyWhileInTable ==
    [][ \A r \in 1..Len(heap) :
          heap'[r].transcript # heap[r].transcript =>
            \E id \in DOMAIN active_sessions : active_sessions[id] = r ]_vars

\* C7: when End returns, every slice an Observe stream of the same session
\* has emitted so far is a run of adjacent entries of final_transcript.
C7_ObservedTailsInFinalTranscript ==
    [][ \A t \in Pool :
          (end[t].pc = "del" /\ end'[t].pc = "done" /\ end'[t].status = 200) =>
            \A o \in Pool :
              (obs[o].session = end[t].session /\ obs[o].out # <<>>) =>
                IsContiguousSubSeq(obs[o].out[1].transcript, end'[t].final_transcript) ]_vars

\* the event Observe is expected to yield for a transcript of n >= 1 entries
TailEvent(session_id, transcript) ==
    LET n == Len(transcript)
        k == IF n < ObserveWindow THEN n ELSE ObserveWindow
    IN  [session_id |-> session_id, transcript |-> [i \in 1..k |-> transcript[n - k + i]]]

\* C8 as stated: every polling cycle that finds the session yields exactly one
\* event with the last min(5, n) entries, also for n = 0.
C8_ObserveEmitsEveryCycle ==
    [][ \A t \in Pool :
          (obs[t].pc = "emit" /\ obs'[t].pc = "sleep") =>
            obs'[t].out = <<TailEvent(obs[t].session_id, heap[obs[t].session].transcript)>> ]_vars

\* C8 amended: every polling cycle that finds the session yields exactly one
\* event with the last min(5, n) entries in transcript order when n >= 1, and
\* no event when the transcript is empty.
C8_ObserveEmitsTailWhenNonEmpty ==
    [][ \A t \in Pool :
          (obs[t].pc = "emit" /\ obs'[t].pc = "sleep") =>
            LET transcript == heap[obs[t].session].transcript IN
              obs'[t].out = IF Len(transcript) = 0
                              THEN <<>>
                              ELSE <<TailEvent(obs[t].session_id, transcript)>> ]_vars

\* an event of five entries was cut from a longer transcript
C8_Witness ==
    \E t \in Pool :
        /\ obs[t].pc = "sleep"
        /\ obs[t].out # <<>>
        /\ Len(obs[t].out[1].transcript) = ObserveWindow
        /\ obs[t].out[1].transcript[1].timestamp > 1

\* C9: an Observe event is yielded only in a state where the session is in
\* the session table.
C9_NoEventAfterRemoval ==
    [][ \A t \in Pool :
          (obs[t].pc = "emit" /\ obs'[t].pc = "sleep" /\ obs'[t].out # <<>>) =>
            obs[t].session_id \in DOMAIN active_sessions ]_vars

\* C10: an Observe stream that has terminated ended normally, at a polling
\* check that found the session gone, never with an error.
C10_StreamEndsNormally ==
    \A t \in Pool : obs[t].pc = "done" => obs[t].stream = "closed"

C12_NoFailureAfterExistenceTest ==
    \A t \in Pool :
       /\ feed[t].pc = "done" => feed[t].error # "Failed to process audio"
       /\ end[t].pc = "done" => end[t].error # "KeyError"
       /\ obs[t].pc = "done" => obs[t].stream # "error"

\* C13: a session is removed once and its transcript is returned at most
\* once: an End returns final_transcript only in the step that removes its
\* session id from the table, and an id that was removed never comes back,
\* however many End calls run on it, one after another or at once.
C13_TranscriptReturnedAtMostOnce ==
    [][ /\ \A t \in Pool :
             (end[t].pc # "done" /\ end'[t].pc = "done" /\ end'[t].status = 200)
             => /\ end[t].session_id \in DOMAIN active_sessions
                /\ end[t].session_id \notin DOMAIN active_sessions'
                /\ \A u \in Pool \ {t} : end'[u] = end[u]
        /\ \A id \in IssuedIds \ DOMAIN active_sessions :
             id \notin DOMAIN active_sessions' ]_vars

\* two End calls ran at once on a session with an entry: one returned the
\* transcript, the other failed
C13_Witness ==
    \E t, u \in Pool :
       /\ end[t].pc = "done" /\ end[t].status = 200
       /\ end[t].final_transcript # <<>>
       /\ end[u].pc = "done" /\ end[u].status = 500
       /\ end[u].session_id = end[t].session_id
       /\ end[u].final_transcript = <<>>

\* C14: for every text and every budget, truncate_text returns the text
\* unchanged when it has at most budget characters, and otherwise its first
\* (budget - 1000) characters, the truncation marker and its last 1000
\* characters.
C14_TruncateKeepsHeadAndTail ==
    req.pc = "done"
    => req.result = IF Len(req.text) <= req.max_chars
                      THEN req.text
                      ELSE SubSeq(req.text, 1, req.max_chars - TailChars)
                           \o TruncationMarker
                           \o SubSeq(req.text, Max(1, Len(req.text) - TailChars + 1), Len(req.text))

\* C14 (amended): the same, for every text and every budget of at least 1000
\* characters.
C14_TruncateKeepsHeadAndTailFrom1000 ==
    (req.pc = "done" /\ req.max_chars >= TailChars)
    => req.result = IF Len(req.text) <= req.max_chars
                      THEN req.text
                      ELSE SubSeq(req.text, 1, req.max_chars - TailChars)
                           \o TruncationMarker
                           \o SubSeq(req.text, Len(req.text) - TailChars + 1, Len(req.text))

\* a text longer than a budget above 1000 was cut to a head and a tail
C14_Witness ==
    /\ req.pc = "done"
    /\ req.max_chars > TailChars
    /\ Len(req.text) > req.max_chars
    /\ req.result # req.text
    /\ req.result[1] = req.text[1]
    /\ req.result[Len(req.result)] = req.text[Len(req.text)]

\* C15: for every text longer than the budget, the result of truncate_text
\* has at most budget characters.
C15_TruncatedFitsBudget ==
    (req.pc = "done" /\ Len(req.text) > req.max_chars)
    => Len(req.result) <= req.max_chars

\* the non-empty trimmed lines of the first 1200 characters of text
SampleLines(text) ==
    LET split == SplitLines(SubSeq(text, 1, Min(SampleChars, Len(text))))
    IN  SelectSeq([i \in 1..Len(split) |-> Strip(split[i])], LAMBDA l : Len(l) > 0)

\* section lists, one per output line and after "- ", the first at most 8
\* lines of the sample in which a key occurs in any letter case, in their
\* order; it is the 'none detected' line when there is no such line
ListsFirstMatches(section, text, keys) ==
    LET sampleLines == SampleLines(text)
        hit == {i \in 1..Len(sampleLines) :
                  \E key \in keys : \E p \in 0..(Len(sampleLines[i]) - Len(key)) :
                     \A q \in 1..Len(key) : LowerChar(sampleLines[i][p + q]) = key[q]}
        shown == SplitLines(section)
    IN  IF hit = {}
          THEN section = NoneDetected
          ELSE /\ section # NoneDetected
               /\ Len(shown) = Min(MaxHits, Cardinality(hit))
               /\ \A j \in 1..Len(shown) : shown[j] = Bullet \o sampleLines[NthLeast(hit, j)]

\* C16: the fallback summarizer looks at the first 1200 characters of its
\* input only; each of the four sections lists the first at most 8 non-empty
\* trimmed lines of that sample that contain one of the section's keywords in
\* any letter case, verbatim, in their order and with repetitions, and shows
\* '(none detected in sample)' exactly when no line matches.
C16_SectionsListFirstMatches ==
    req.pc = "done"
    => /\ ListsFirstMatches(req.result.diagnoses, req.text, DiagnosisKeys)
       /\ ListsFirstMatches(req.result.meds, req.text, MedicationKeys)
       /\ ListsFirstMatches(req.result.allergies, req.text, AllergyKeys)
       /\ ListsFirstMatches(req.result.procedures, req.text, ProcedureKeys)

\* more than 8 lines matched a diagnosis keyword, 8 are listed, and the
\* section of the procedures has nothing to list
C16_Witness ==
    /\ req.pc = "done"
    /\ Len(SelectSeq(SampleLines(req.text), LAMBDA l : MatchesAny(l, DiagnosisKeys))) > MaxHits
    /\ Len(SplitLines(req.result.diagnoses)) = MaxHits
    /\ req.result.procedures = NoneDetected

\* the models called are the first n candidates in list order, every call
\* but the last one raised, and the result is that of the last call: its
\* content and model when it succeeded, and when it raised, every candidate
\* was called and the failure carries its error
TriedInOrderUntilSuccess(candidates) ==
    \E n \in 1..Len(candidates) :
       /\ Len(req.tried) = n
       /\ \A i \in 1..n : req.tried[i].model = candidates[i]
       /\ \A i \in 1..(n - 1) : req.tried[i].error # 0
       /\ IF req.tried[n].error = 0
            THEN req.result = <<TRUE, Content("summary", 0), candidates[n]>>
            ELSE /\ n = Len(candidates)
                 /\ req.result = <<FALSE,
                                    Content("OpenAI call failed across models. Last error",
                                            req.tried[n].error),
                                    "">>

\* C17: with an API credential the AI client calls the candidate models in
\* list order (the override first when set, then the fixed list), stops at
\* the first success and returns its content and model; when every candidate
\* fails it returns a failure with the error of the last one; without a
\* credential it fails at once and calls no model.
C17_TriesCandidatesInOrder ==
    req.pc = "returned"
    => IF req.api_key = ""
         THEN req.tried = <<>> /\ req.result[1] = FALSE
         ELSE TriedInOrderUntilSuccess(IF req.env_model = "" THEN FixedModels
                                       ELSE <<req.env_model>> \o FixedModels)

\* C17 (amended): the same when a client is at hand (the modern client was
\* constructed, or the legacy module was imported); when none is, the call
\* fails and calls no model.
C17_TriesCandidatesInOrderGivenClient ==
    req.pc = "returned"
    => IF req.api_key = "" \/ req.client \in {"modern_broken", "unavailable"}
         THEN req.tried = <<>> /\ req.result[1] = FALSE
         ELSE TriedInOrderUntilSuccess(IF req.env_model = "" THEN FixedModels
                                       ELSE <<req.env_model>> \o FixedModels)

\* the override and the first fixed model failed, the second fixed model
\* answered
C17_Witness ==
    /\ req.pc = "returned"
    /\ req.env_model = "my-model"
    /\ Len(req.tried) = 3
    /\ req.result = <<TRUE, Content("summary", 0), "gpt-5-mini">>

\* C18: within one call of the AI client no model identifier is called
\* twice, whatever the override is.
C18_EachModelTriedOnce ==
    \A i, j \in 1..Len(req.tried) : i # j => req.tried[i].model # req.tried[j].model

\* C19: when at least one uploaded PDF yields text, /summarize answers
\* without an error: with the AI content and the model that produced it when
\* the AI client succeeded, and with status 200, a fallback summary and
\* model = "placeholder" in every other case (no credential, no client
\* library, every candidate failed).
C19_SummarizeNeverFailsWithText ==
    (req.pc = "done" /\ \E i \in 1..Len(req.parts) : req.parts[i] = "pdf")
    => /\ req.response.status = 200
       /\ IF \E i \in 1..Len(req.tried) : req.tried[i].error = 0
            THEN /\ req.response.summary = Content("summary", 0)
                 /\ req.response.model = req.tried[Len(req.tried)].model
            ELSE /\ req.response.summary.kind = "placeholder"
                 /\ req.response.model = "placeholder"

\* the part has a filename, its sanitized name ends in a dot and an
\* allow-listed extension in any letter case, and its save succeeds
AcceptedPart(part) ==
    LET name == secure_filename(part.filename) IN
      /\ part.filename # <<>>
      /\ part.save_ok
      /\ \E k \in 1..Len(name) :
            /\ name[k] = "."
            /\ \A j \in (k + 1)..Len(name) : name[j] # "."
            /\ [j \in 1..(Len(name) - k) |-> LowerChar(name[k + j])] \in ALLOWED_AUDIO_EXTENSIONS

\* C20: in /upload-audio a part without a filename, with a disallowed
\* extension or whose save fails is left out and the other parts are still
\* processed; the response lists the accepted parts, all of them and in
\* upload order; the request fails with a client error exactly when no part
\* was accepted.
C20_ResponseListsAcceptedParts ==
    req.pc = "done"
    => LET accepted == {i \in 1..Len(req.parts) : AcceptedPart(req.parts[i])}
           files == req.response.files
       IN  /\ Len(files) = Cardinality(accepted)
           /\ \A j \in 1..Len(files) :
                 files[j].name = secure_filename(req.parts[NthLeast(accepted, j)].filename)
           /\ req.response.status = (IF accepted = {} THEN 400 ELSE 200)

\* the save of the first part failed and the second part was stored
C20_Witness ==
    /\ req.pc = "done"
    /\ Len(req.parts) = 2
    /\ ~req.parts[1].save_ok
    /\ req.response.status = 200
    /\ Len(req.response.files) = 1
    /\ req.response.files[1].name = secure_filename(req.parts[2].filename)

\* the files accepted so far, by the earlier requests and by this one
AcceptedFiles == req.history \o req.saved

\* every accepted file has a stored name (and so a URL) of its own, and is
\* on the disk under that name as it was saved
StoredNamesDistinct ==
    /\ \A i, j \in 1..Len(AcceptedFiles) :
          i # j => <<AcceptedFiles[i].uuid, AcceptedFiles[i].ext>>
                     # <<AcceptedFiles[j].uuid, AcceptedFiles[j].ext>>
    /\ \A i \in 1..Len(AcceptedFiles) :
          [uuid |-> AcceptedFiles[i].uuid, ext |-> AcceptedFiles[i].ext] \in DOMAIN req.disk
    /\ Cardinality(DOMAIN req.disk) = Len(AcceptedFiles)

\* C21: over any sequence of uploads, in one request or in several, with
\* equal original filenames or not, every accepted file has a stored name and
\* URL that no other accepted file has, the stored name ends in the
\* extension of the original filename as written, and no upload overwrites a
\* stored file.
C21_StoredNamesUniqueKeepExtension ==
    [][ /\ StoredNamesDistinct'
        /\ \A i \in 1..Len(AcceptedFiles') :
              AcceptedFiles'[i].ext = Extension(AcceptedFiles'[i].name)
        /\ \A n \in DOMAIN req.disk :
              n \in DOMAIN req'.disk /\ req'.disk[n] = req.disk[n] ]_vars

\* C21 (amended): the same, the stored name ending in the extension of the
\* sanitized original filename in lower case.
C21_StoredNamesUniqueLowerExtension ==
    [][ /\ StoredNamesDistinct'
        /\ \A i \in 1..Len(AcceptedFiles') :
              /\ Len(AcceptedFiles'[i].ext) = Len(Extension(AcceptedFiles'[i].name))
              /\ \A k \in 1..Len(AcceptedFiles'[i].ext) :
                    AcceptedFiles'[i].ext[k] = LowerChar(Extension(AcceptedFiles'[i].name)[k])
        /\ \A n \in DOMAIN req.disk :
              n \in DOMAIN req'.disk /\ req'.disk[n] = req.disk[n] ]_vars

\* two requests uploaded a file of the same name and both files are stored
C21_Witness ==
    /\ req.request = 2
    /\ req.pc = "done"
    /\ \E i \in 1..Len(req.history), j \in 1..Len(req.saved) :
          /\ req.history[i].name = req.saved[j].name
          /\ req.history[i].uuid # req.saved[j].uuid
          /\ req.disk[[uuid |-> req.history[i].uuid, ext |-> req.history[i].ext]] = <<1, i>>

\* the session objects whose transcript the step changes
ChangedTranscripts == {r \in 1..Len(heap) : heap'[r].transcript # heap[r].transcript}

\* C22: transcripts are append-only and private to their session: a Feed on
\* session s leaves the transcript of every other session as it is and
\* changes that of s only by appending one entry at its end, and no other
\* step changes a transcript, so the earlier transcript of a session is a
\* prefix of the later one.
C22_TranscriptsAppendOnlyAndPrivate ==
    [][ /\ Len(heap') >= Len(heap)
        /\ Cardinality(ChangedTranscripts) <= 1
        /\ \A r \in ChangedTranscripts :
              /\ Len(heap'[r].transcript) = Len(heap[r].transcript) + 1
              /\ SubSeq(heap'[r].transcript, 1, Len(heap[r].transcript)) = heap[r].transcript
              /\ \E t \in Pool :
                    /\ feed[t].pc = "sleep" /\ feed'[t].pc = "respond"
                    /\ feed[t].session = r
                    /\ feed[t].session_id = heap[r].session_id ]_vars

\* each of two sessions in the table has an entry of its own
C22_Witness ==
    \E r, q \in 1..Len(heap) :
       /\ r # q
       /\ Len(heap[r].transcript) = 1
       /\ Len(heap[q].transcript) = 1
       /\ heap[r].transcript # heap[q].transcript
       /\ {heap[r].session_id, heap[q].session_id} \subseteq DOMAIN active_sessions

\* C23: a session, once created, stays in the session table with
\* is_active = TRUE until an End on its id succeeds: the only step after
\* which an id of the table is missing is the removal made by an End on that
\* id, every other step keeps the id bound to the same active session
\* object, and no step is taken on the passing of time alone.
C23_SessionStaysUntilEnded ==
    [][ \A id \in DOMAIN active_sessions :
          /\ heap[active_sessions[id]].is_active
          /\ \/ /\ id \in DOMAIN active_sessions'
                /\ active_sessions'[id] = active_sessions[id]
                /\ heap'[active_sessions[id]].is_active
             \/ \E t \in Pool :
                   /\ end[t].pc = "del" /\ end'[t].pc # "del"
                   /\ end[t].session_id = id
                   /\ end'[t].status # 500 ]_vars

\* a session outlived a Feed that appended to it, an Observe and the End of
\* another session
C23_Witness ==
    \E id \in DOMAIN active_sessions :
       /\ heap[active_sessions[id]].is_active
       /\ Len(heap[active_sessions[id]].transcript) > 0
       /\ Len(heap) > Cardinality(DOMAIN active_sessions)
       /\ \E t \in Pool : obs[t].pc # ObserveIdle.pc /\ obs[t].session_id = id

\* thread t takes a step of an event stream
ObserveStep(t) == obs'[t] # obs[t] /\ ~Resting(obs'[t].pc)

\* C24: Observe is non-mutating: a step of any event stream, whatever other
\* streams are open on the same or on other sessions, leaves the session
\* table and every transcript unchanged and leaves the other streams as
\* they are, and what a stream emits in a polling cycle is the window of at
\* most five latest entries of its session's transcript at that instant.
C24_ObserveLeavesSessionsAlone ==
    [][ \A t \in Pool : ObserveStep(t) =>
          /\ active_sessions' = active_sessions
          /\ heap' = heap
          /\ \A u \in Pool \ {t} : obs'[u] = obs[u]
          /\ (obs[t].pc = "emit") =>
                LET transcript == heap[obs[t].session].transcript IN
                  /\ transcript = <<>> => obs'[t].out = <<>>
                  /\ transcript # <<>> =>
                        /\ Len(obs'[t].out) = 1
                        /\ obs'[t].out[1].transcript
                              = SubSeq(transcript, Max(1, Len(transcript) - 4), Len(transcript)) ]_vars

\* two streams are open at once and one of them has emitted an entry
C24_Witness ==
    \E t, u \in Pool :
       /\ t # u
       /\ obs[t].pc = "sleep" /\ obs[t].out # <<>>
       /\ obs[u].pc \in {"check", "lookup", "emit", "sleep"}

\* the uploaded parts that are PDFs yielding extracted text
TextParts == {i \in 1..Len(req.parts) : req.parts[i] = "pdf"}

\* C25: /summarize answers with a client error exactly when no uploaded
\* part is a PDF that yields text; parts that are no PDFs or yield no text
\* are left out without failing the request, and the document count handed
\* to the prompt and to the fallback summary is the number of parts that
\* yielded text.
C25_ClientErrorIffNoText ==
    /\ req.pc = "done" => (req.response.status \in 400..499 <=> TextParts = {})
    /\ req.pc \notin {"receive", "done"} => req.accepted_count = Cardinality(TextParts)
    /\ (req.pc = "done" /\ req.response.model = "placeholder")
          => req.response.summary = Content("placeholder", Cardinality(TextParts))

\* a batch of one readable PDF and one part that is left out was answered
\* with the fallback summary of one document
C25_Witness ==
    /\ req.pc = "done"
    /\ Cardinality(TextParts) = 1
    /\ Len(req.parts) = 2
    /\ req.response.status = 200
    /\ req.response.summary = Content("placeholder", 1)

\* C26: Feed synthesizes an entry only for substantial chunks: a session
\* object changes in a step only when a Feed whose chunk is larger than
\* 1000 bytes appends one entry to its transcript, and the speakers list of
\* that entry holds exactly one of the three synthetic speaker labels; a
\* Feed with a chunk of at most 1000 bytes passes its transcription step
\* without changing anything.
C26_EntryOnlyForSubstantialChunk ==
    [][ /\ \A t \in Pool :
             (feed[t].pc = "sleep" /\ feed'[t].pc = "respond"
                /\ feed[t].audio_length <= SubstantialAudio) => heap' = heap
        /\ \A r \in 1..Len(heap) : heap'[r] # heap[r] =>
             \E t \in Pool :
                /\ feed[t].pc = "sleep" /\ feed'[t].pc = "respond"
                /\ feed[t].session = r
                /\ feed[t].audio_length > SubstantialAudio
                /\ \E entry \in {heap'[r].transcript[Len(heap'[r].transcript)]} :
                      /\ heap'[r] = [heap[r] EXCEPT !.transcript = Append(@, entry)]
                      /\ Len(entry.speakers) = 1
                      /\ entry.speakers[1] \in 1..3 ]_vars

\* a Feed with a chunk of 1001 bytes was answered after it appended the
\* only entry of the transcript
C26_Witness ==
    \E t \in Pool :
       /\ feed[t].pc = "done"
       /\ feed[t].status = 200
       /\ feed[t].audio_size = SubstantialAudio + 1
       /\ feed[t].transcript_count = 1

\* the length of the transcript of session 1 in the session table
SessionLength ==
    IF 1 \in DOMAIN active_sessions THEN Len(heap[active_sessions[1]].transcript) ELSE 0

\* thread t holds the answer of a Feed that was processed
FeedAnswered(t) == feed[t].pc = "done" /\ feed[t].status = 200

\* C27: no update is lost between concurrent Feeds on a session that is not
\* ended: the transcript holds every entry that a Feed appended, in the
\* order of the appends, so its length is the number of appends made; the
\* transcript_count a Feed returns is at least the length the transcript
\* had when the Feed started, and the transcript is never shorter afterwards
\* than a count that was returned.
C27_NoLostUpdate ==
    /\ [](/\ SessionLength = clock - 1
          /\ 1 \in DOMAIN active_sessions =>
                \A i \in 1..SessionLength : heap[active_sessions[1]].transcript[i].timestamp = i)
    /\ \A t \in Threads : \A n \in 0..SharedEntries :
          /\ [](feed[t].pc = "check" /\ SessionLength >= n
                   => [](FeedAnswered(t) => feed[t].transcript_count >= n))
          /\ [](FeedAnswered(t) /\ feed[t].transcript_count >= n => [](SessionLength >= n))

\* two Feeds ran at once, both appended, and both were answered
C27_Witness ==
    /\ SessionLength = 2
    /\ \E t, u \in Pool :
          /\ t # u
          /\ FeedAnswered(t) /\ feed[t].transcript_count = 2
          /\ FeedAnswered(u) /\ feed[u].transcript_count = 2

\* a result that is not partial and has a first alternative whose text is
\* not blank
Transcribed(result) ==
    /\ ~("IsPartial" \in DOMAIN result /\ result.IsPartial)
    /\ "Alternatives" \in DOMAIN result
    /\ result.Alternatives # <<>>
    /\ "Transcript" \in DOMAIN result.Alternatives[1]
    /\ \E i \in 1..Len(result.Alternatives[1].Transcript) :
          result.Alternatives[1].Transcript[i] \notin {" ", "\t"}

\* an item of the alternative carries a speaker label
HasSpeakerLabel(alternative) ==
    /\ "Items" \in DOMAIN alternative
    /\ \E i \in 1..Len(alternative.Items) : "Speaker" \in DOMAIN alternative.Items[i]

\* C28: process_transcription_event on an existing session appends, in the
\* order of the results, exactly one entry for each result that is not
\* partial, has at least one alternative and whose first alternative's
\* text is not blank, with speakers = <<"Unknown">> when no item carries a
\* speaker label, and returns the last min(10, n) entries with
\* total_entries = n, n being the length of the transcript after the call;
\* on an unknown session id it returns "Session not found" and changes
\* nothing.
C28_EventAppendsTranscribedResults ==
    [][ req' # req =>
          LET session_id == req'.session_id
              transcribed == SelectSeq(ResultsOf(req'.event_data), Transcribed)
          IN IF session_id \notin DOMAIN active_sessions
               THEN /\ req'.result = [error |-> "Session not found"]
                    /\ active_sessions' = active_sessions
                    /\ heap' = heap
               ELSE LET before == heap[active_sessions[session_id]].transcript
                        after == heap'[active_sessions[session_id]].transcript
                        n == Len(after)
                    IN /\ active_sessions' = active_sessions
                       /\ n = Len(before) + Len(transcribed)
                       /\ SubSeq(after, 1, Len(before)) = before
                       /\ \A i \in 1..Len(transcribed) :
                             LET alternative == transcribed[i].Alternatives[1]
                                 entry == after[Len(before) + i]
                             IN /\ entry.text = alternative.Transcript
                                /\ ~HasSpeakerLabel(alternative) => entry.speakers = <<"Unknown">>
                       /\ req'.result.total_entries = n
                       /\ Len(req'.result.transcript) = (IF n < 10 THEN n ELSE 10)
                       /\ \A i \in 1..Len(req'.result.transcript) :
                             req'.result.transcript[i]
                                = after[n - Len(req'.result.transcript) + i] ]_vars

\* the event of four results added two entries to the transcript; the call
\* returned the ten latest of more than ten entries, the last of them by an
\* unknown speaker
C28_Witness ==
    /\ req.pc = "returned"
    /\ Len(ResultsOf(req.event_data)) = 4
    /\ "total_entries" \in DOMAIN req.result
    /\ req.result.total_entries > RecentWindow
    /\ Len(req.result.transcript) = RecentWindow
    /\ req.result.transcript[RecentWindow].speakers = <<"Unknown">>
    /\ req.result.transcript[RecentWindow - 1].speakers = <<"spk_0", "spk_1">>
====
